---- MODULE Spec2Model ----
(***************************************************************************)
(* KeliCAD agent: the WebSocket protocol engine (websocket.rs), the shared *)
(* AppState (main.rs) and the origin allow-list (protocol.rs).             *)
(*                                                                         *)
(* One connection task per accepted connection runs the select! loop of    *)
(* handle_connection; every accepted simulate request is a task of its own *)
(* (tokio::spawn) running handle_simulate.  The runtime is multi-threaded, *)
(* so the steps of different tasks interleave at every access to shared    *)
(* state: the RwLock fields are accessed under their locks, the atomics    *)
(* (cancel_requested, current_process_id) one load or store at a time.     *)
(*                                                                         *)
(* AppState.simulation_count and last_simulation_time are written by a     *)
(* successful job after its reset and read by the status command of the    *)
(* desktop window only; nothing of the protocol reads them and they are    *)
(* left out.                                                               *)
(***************************************************************************)
EXTENDS Integers, Sequences, FiniteSets, TLC

\* ---- bounds of the model ------------------------------------------------
NumConns == 2      \* connections the listener accepts
MaxMsgs == 3       \* inbound frames handled, all connections together
MaxJobs == 2       \* simulate requests that spawn a handle_simulate task
MaxNetlistLen == 4 \* pieces of a netlist
MaxCalls == 3      \* successive calls of prepare_netlist
MaxVars == 3       \* variables a result artifact declares or lists
MaxPoints == 3     \* points a result artifact declares
MaxLines == 5      \* non-empty lines of an ASCII value region
MaxOutputLen == 3  \* lines of simulator output scanned for errors

Conns == 1..NumConns
Jobs == 1..MaxJobs

\* Rust's Option::None, for the Option<String> fields that hold text.
None == "None"
\* Option::None for current_simulation_id; request ids are 1, 2, ...
NoId == 0

\* ---- protocol.rs ----------------------------------------------------------
ALLOWED_ORIGINS ==
    { "https://kelicad.com", "https://www.kelicad.com",
      "http://localhost:3000", "http://127.0.0.1:3000" }

\* Origins a client may declare: the allow-list, the rejected origins of
\* test_is_origin_allowed_invalid_origins, and a case variant.
Origins ==
    ALLOWED_ORIGINS \cup
    { "https://malicious.com", "http://localhost:8080",
      "https://kelicad.com.evil.com", "", "HTTPS://KELICAD.COM" }

\* Faulty variant: a prefix match instead of an exact one
is_origin_allowed_prefix(origin) ==
    origin \in ALLOWED_ORIGINS \cup {"https://kelicad.com.evil.com"}

is_origin_allowed(origin) == origin \in ALLOWED_ORIGINS

\* The path detect_ltspice() finds, when it finds one.
LTSPICE_PATH == "/Applications/LTspice.app/Contents/MacOS/LTspice"

VARIABLES
    ltspice_path,           \* AppState.ltspice_path: None or a path
    is_simulating,          \* AppState.is_simulating
    ws_connections,         \* AppState.ws_connections
    current_simulation_id,  \* AppState.current_simulation_id: NoId or a request id
    cancel_requested,       \* AppState.cancel_requested (AtomicBool)
    current_process_id,     \* AppState.current_process_id (AtomicU32), 0 = none
    wlock,                  \* task holding the is_simulating/current_simulation_id
                            \* write guards (0 = nobody)
    detected,               \* the start-up detection task has run
    conn,                   \* per connection: its handler's state
    chan,                   \* per connection: the mpsc channel (capacity 1)
    task,                   \* per spawned handle_simulate task: its state
    njobs,                  \* tasks spawned so far
    nmsgs,                  \* inbound frames handled so far
    proc,                   \* per task: its external simulator process
    signals,                \* every signal sent by kill_process, in order
    io,                     \* what the last step read from and wrote to a socket
    acked,                  \* request ids a written cancel_response success:true names
    delivered,              \* per request id: simulation_result frames written for it
    arg,                    \* the arguments of a call of a function of simulator.rs
    ret                     \* what the call returned (NoRet: not called yet)

agent == << ltspice_path, is_simulating, ws_connections,
            current_simulation_id, cancel_requested, current_process_id,
            wlock, detected >>
vars == << ltspice_path, is_simulating, ws_connections,
           current_simulation_id, cancel_requested, current_process_id,
           wlock, detected, conn, chan, task, njobs, nmsgs, proc, signals,
           io, acked, delivered, arg, ret >>

\* The four fields a job owns in AppState.
JobState == << is_simulating, current_simulation_id, cancel_requested,
               current_process_id >>

\* ---- inbound frames ---------------------------------------------------------
\* kind: the "type" tag of a text frame that decodes as GenericMessage;
\* "badjson" a text frame that does not; "binary" a non-text frame.
\* ok: the body also decodes as the typed request of its kind.
Frame(kind, ok, origin, requestId) ==
    [kind |-> kind, ok |-> ok, origin |-> origin, requestId |-> requestId]

Frames ==
    { Frame("handshake", TRUE, o, 0) : o \in Origins } \cup
    { Frame(k, FALSE, "", 0) : k \in {"handshake", "simulate", "ping", "cancel"} } \cup
    { Frame("simulate", TRUE, "", 0), Frame("ping", TRUE, "", 0) } \cup
    { Frame("cancel", TRUE, "", j) : j \in Jobs } \cup
    { Frame(k, TRUE, "", 0) : k \in {"unknown", "badjson", "binary"} }

NoFrame == Frame("none", TRUE, "", 0)

\* ---- responses --------------------------------------------------------------
HandshakeResponse(success, path, ltspice, analyses, error) ==
    [type |-> "handshake_response", success |-> success, ltspicePath |-> path,
     ltspiceAvailable |-> ltspice, ngspiceAvailable |-> FALSE,
     supportedAnalyses |-> analyses, error |-> error]

SimulationProgress(requestId) ==
    [type |-> "simulation_progress", requestId |-> requestId,
     stage |-> "preparing"]

SimulationResponse(requestId, success, results, error) ==
    [type |-> "simulation_result", requestId |-> requestId,
     success |-> success, results |-> results, error |-> error]

PongResponse(is_sim) ==
    [type |-> "pong", status |-> IF is_sim THEN "busy" ELSE "ready"]

CancelResponse(requestId, success) ==
    [type |-> "cancel_response", requestId |-> requestId, success |-> success]

NoResponse == [type |-> "none"]

\* One step's traffic on a socket: the frame read (NoFrame: none), the frame
\* handed to write.send (NoResponse: none) and whether the write returned Ok.
IO(c, in, out, written) ==
    [conn |-> c, in |-> in, out |-> out, written |-> written]

NoIO == IO(0, NoFrame, NoResponse, FALSE)

\* ---- initial state ----------------------------------------------------------
NewConn ==
    [st |-> "listening", handshake_complete |-> FALSE, pc |-> "select",
     creq |-> 0, cpid |-> 0]

NoTask ==
    [pc |-> "unborn", conn |-> 0, was_cancelled |-> FALSE, result |-> "none",
     resp |-> NoResponse]

\* No call of a function of simulator.rs is looked at.
NoArg == [fn |-> "none"]
NoRet == [ok |-> "none"]

AgentInit ==
    /\ ltspice_path = None
    /\ is_simulating = FALSE
    /\ ws_connections = 0
    /\ current_simulation_id = NoId
    /\ cancel_requested = FALSE
    /\ current_process_id = 0
    /\ wlock = 0
    /\ detected = FALSE
    /\ conn = [c \in Conns |-> NewConn]
    /\ chan = [c \in Conns |-> << >>]
    /\ task = [t \in Jobs |-> NoTask]
    /\ njobs = 0
    /\ nmsgs = 0
    /\ proc = [t \in Jobs |-> "none"]
    /\ signals = << >>
    /\ io = NoIO
    /\ acked = {}
    /\ delivered = [t \in Jobs |-> 0]

Init ==
    /\ AgentInit
    /\ arg = NoArg
    /\ ret = NoRet

\* ---- handle_handshake ------------------------------------------------------
handle_handshake(origin, path) ==
    IF ~is_origin_allowed(origin)
    THEN HandshakeResponse(FALSE, None, FALSE, << >>, "Invalid origin")
    ELSE HandshakeResponse(TRUE, path, path # None,
                           << "transient", "ac", "dc" >>, None)

\* ---- the end of handle_connection -----------------------------------------
\* Leaving the loop by break: the counter is decremented (saturating) and the
\* function returns, which drops the socket and the channel's receiver.
Break(c) ==
    /\ conn' = [conn EXCEPT ![c] = [NewConn EXCEPT !.st = "closed"]]
    /\ ws_connections' = IF ws_connections = 0 THEN 0 ELSE ws_connections - 1
    /\ chan' = [chan EXCEPT ![c] = << >>]

\* Leaving by the ? operator: handle_connection returns Err at once.
ReturnErr(c) ==
    /\ conn' = [conn EXCEPT ![c] = [NewConn EXCEPT !.st = "closed"]]
    /\ chan' = [chan EXCEPT ![c] = << >>]
    /\ UNCHANGED << ws_connections >>

\* write.send(response) at the end of a loop turn, for the frame f just read
\* (NoFrame in a later step of the same turn): on Ok the loop goes on with the
\* connection state cnext, on Err it breaks.
SendResponse(c, f, response, cnext) ==
    \/ /\ io' = IO(c, f, response, TRUE)
       /\ conn' = [conn EXCEPT ![c] = cnext]
       /\ UNCHANGED << ws_connections, chan >>
    \/ /\ io' = IO(c, f, response, FALSE)
       /\ Break(c)

\* A loop turn that answers nothing (continue, or a non-text frame).
Continue(c, f) ==
    /\ io' = IO(c, f, NoResponse, FALSE)
    /\ UNCHANGED << conn, ws_connections, chan >>

\* read.next() yields Some(Ok(frame)).
Read(c) ==
    /\ conn[c].st = "open"
    /\ conn[c].pc = "select"
    /\ nmsgs < MaxMsgs
    /\ nmsgs' = nmsgs + 1

\* ---- start_server / handle_connection -------------------------------------
\* The listener accepts one connection after the other.
Accept(c) ==
    /\ conn[c].st = "listening"
    /\ \A b \in Conns : b < c => conn[b].st # "listening"
    /\ conn' = [conn EXCEPT ![c].st = "open"]
    /\ ws_connections' = ws_connections + 1
    /\ io' = NoIO
    /\ UNCHANGED << ltspice_path, is_simulating, current_simulation_id,
                    cancel_requested, current_process_id, wlock, detected,
                    chan, task, njobs, nmsgs, proc, signals, acked, delivered >>
    /\ UNCHANGED << arg, ret >>

\* Faulty variant: the teardown kills the process of the current job
ReadEndAborts(c) ==
    /\ conn[c].st = "open"
    /\ conn[c].pc = "select"
    /\ Break(c)
    /\ io' = NoIO
    /\ signals' = IF current_process_id # 0
                  THEN Append(signals, [pid |-> current_process_id,
                                        sig |-> "SIGKILL",
                                        requestId |-> current_simulation_id])
                  ELSE signals
    /\ UNCHANGED << ltspice_path, is_simulating, current_simulation_id,
                    cancel_requested, current_process_id, wlock, detected,
                    task, njobs, nmsgs, proc, acked, delivered >>
    /\ UNCHANGED << arg, ret >>

\* read.next() yields None or Some(Err): break.
ReadEnd(c) ==
    /\ conn[c].st = "open"
    /\ conn[c].pc = "select"
    /\ Break(c)
    /\ io' = NoIO
    /\ UNCHANGED << ltspice_path, is_simulating, current_simulation_id,
                    cancel_requested, current_process_id, wlock, detected,
                    task, njobs, nmsgs, proc, signals, acked, delivered >>
    /\ UNCHANGED << arg, ret >>

\* A frame that is not text, a text that is not a GenericMessage, or a type
\* tag the match does not know: nothing is answered.
OnIgnored(c, f) ==
    /\ f.kind \in {"binary", "badjson", "unknown"}
    /\ Read(c)
    /\ Continue(c, f)
    /\ UNCHANGED << ltspice_path, is_simulating, current_simulation_id,
                    cancel_requested, current_process_id, wlock, detected,
                    task, njobs, proc, signals, acked, delivered >>
    /\ UNCHANGED << arg, ret >>

\* A recognized type whose body does not decode as its request: the ? returns.
\* (A simulate is looked at only after the handshake check.)
OnUndecodable(c, f) ==
    /\ f.kind \in {"handshake", "simulate", "ping", "cancel"}
    /\ ~f.ok
    /\ f.kind = "simulate" => conn[c].handshake_complete
    /\ Read(c)
    /\ ReturnErr(c)
    /\ io' = IO(c, f, NoResponse, FALSE)
    /\ UNCHANGED << ltspice_path, is_simulating, current_simulation_id,
                    cancel_requested, current_process_id, wlock, detected,
                    task, njobs, proc, signals, acked, delivered >>
    /\ UNCHANGED << arg, ret >>

\* handshake: the flag takes the response's success, whatever it was before.
OnHandshake(c, f) ==
    /\ f.kind = "handshake"
    /\ f.ok
    /\ Read(c)
    /\ LET response == handle_handshake(f.origin, ltspice_path)
       IN SendResponse(c, f, response,
                       [conn[c] EXCEPT !.handshake_complete = response.success])
    /\ UNCHANGED << ltspice_path, is_simulating, current_simulation_id,
                    cancel_requested, current_process_id, wlock, detected,
                    task, njobs, proc, signals, acked, delivered >>
    /\ UNCHANGED << arg, ret >>

\* Faulty variant: the early simulate is answered with a failure
OnSimulateEarlyAnswered(c, f) ==
    /\ f.kind = "simulate"
    /\ ~conn[c].handshake_complete
    /\ Read(c)
    /\ SendResponse(c, f, SimulationResponse(0, FALSE, None,
                                             "Handshake required"), conn[c])
    /\ UNCHANGED << ltspice_path, is_simulating, current_simulation_id,
                    cancel_requested, current_process_id, wlock, detected,
                    task, njobs, proc, signals, acked, delivered >>
    /\ UNCHANGED << arg, ret >>

\* simulate before a successful handshake: logged, continue.
OnSimulateEarly(c, f) ==
    /\ f.kind = "simulate"
    /\ ~conn[c].handshake_complete
    /\ Read(c)
    /\ Continue(c, f)
    /\ UNCHANGED << ltspice_path, is_simulating, current_simulation_id,
                    cancel_requested, current_process_id, wlock, detected,
                    task, njobs, proc, signals, acked, delivered >>
    /\ UNCHANGED << arg, ret >>

\* Faulty variant: the task is spawned and no progress frame is written
OnSimulateNoProgress(c, f) ==
    /\ f.kind = "simulate"
    /\ f.ok
    /\ conn[c].handshake_complete
    /\ njobs < MaxJobs
    /\ Read(c)
    /\ io' = IO(c, f, NoResponse, FALSE)
    /\ njobs' = njobs + 1
    /\ task' = [task EXCEPT ![njobs + 1] =
                   [NoTask EXCEPT !.pc = "check", !.conn = c]]
    /\ UNCHANGED << agent, conn, chan, proc, signals, acked, delivered >>
    /\ UNCHANGED << arg, ret >>

\* simulate on a connection whose handshake is complete: the progress frame
\* is written (an Err returns through ?), then the task is spawned.  The
\* request carries a fresh id (a client-side UUID): the number of the task.
OnSimulate(c, f) ==
    /\ f.kind = "simulate"
    /\ f.ok
    /\ conn[c].handshake_complete
    /\ njobs < MaxJobs
    /\ Read(c)
    /\ \/ /\ io' = IO(c, f, SimulationProgress(njobs + 1), TRUE)
          /\ njobs' = njobs + 1
          /\ task' = [task EXCEPT ![njobs + 1] =
                         [NoTask EXCEPT !.pc = "check", !.conn = c]]
          /\ UNCHANGED << conn, ws_connections, chan >>
       \/ /\ io' = IO(c, f, SimulationProgress(njobs + 1), FALSE)
          /\ ReturnErr(c)
          /\ UNCHANGED << njobs, task >>
    /\ UNCHANGED << ltspice_path, is_simulating, current_simulation_id,
                    cancel_requested, current_process_id, wlock, detected,
                    proc, signals, acked, delivered >>
    /\ UNCHANGED << arg, ret >>

\* Faulty variant: the loop awaits the connection's own jobs before the next
\* frame
OnPingAfterJobs(c, f) ==
    /\ f.kind = "ping"
    /\ f.ok
    /\ wlock = 0
    /\ \A t \in Jobs : task[t].conn = c => task[t].pc = "done"
    /\ Read(c)
    /\ SendResponse(c, f, PongResponse(is_simulating), conn[c])
    /\ UNCHANGED << ltspice_path, is_simulating, current_simulation_id,
                    cancel_requested, current_process_id, wlock, detected,
                    task, njobs, proc, signals, acked, delivered >>
    /\ UNCHANGED << arg, ret >>

\* ping: is_simulating is read under its read lock.
OnPing(c, f) ==
    /\ f.kind = "ping"
    /\ f.ok
    /\ wlock = 0
    /\ Read(c)
    /\ SendResponse(c, f, PongResponse(is_simulating), conn[c])
    /\ UNCHANGED << ltspice_path, is_simulating, current_simulation_id,
                    cancel_requested, current_process_id, wlock, detected,
                    task, njobs, proc, signals, acked, delivered >>
    /\ UNCHANGED << arg, ret >>

\* ---- handle_cancel / kill_process ------------------------------------------
\* Faulty variant: any cancel is taken for the current job's
cancel_matches_any(current_id, requestId) == current_id # NoId

\* "Check if we're cancelling the right simulation"
cancel_matches(current_id, requestId) ==
    current_id # NoId /\ current_id = requestId

\* cancel: handle_cancel reads current_simulation_id under its read lock and
\* compares.  No match, or no current job: the answer is success:false.
OnCancel(c, f) ==
    /\ f.kind = "cancel"
    /\ f.ok
    /\ wlock = 0
    /\ Read(c)
    /\ IF cancel_matches(current_simulation_id, f.requestId)
       THEN /\ conn' = [conn EXCEPT ![c].pc = "cancel_store",
                                    ![c].creq = f.requestId]
            /\ io' = IO(c, f, NoResponse, FALSE)
            /\ UNCHANGED << ws_connections, chan >>
       ELSE SendResponse(c, f, CancelResponse(f.requestId, FALSE), conn[c])
    /\ UNCHANGED << ltspice_path, is_simulating, current_simulation_id,
                    cancel_requested, current_process_id, wlock, detected,
                    task, njobs, proc, signals, acked, delivered >>
    /\ UNCHANGED << arg, ret >>

\* cancel_requested.store(true)
CancelStore(c) ==
    /\ conn[c].pc = "cancel_store"
    /\ cancel_requested' = TRUE
    /\ conn' = [conn EXCEPT ![c].pc = "cancel_load"]
    /\ io' = NoIO
    /\ UNCHANGED << ltspice_path, is_simulating, ws_connections,
                    current_simulation_id, current_process_id, wlock,
                    detected, chan, task, njobs, nmsgs, proc, signals, acked,
                    delivered >>
    /\ UNCHANGED << arg, ret >>

\* current_process_id.load(): a pid of 0 sends nothing and answers at once.
CancelLoad(c) ==
    /\ conn[c].pc = "cancel_load"
    /\ IF current_process_id # 0
       THEN /\ conn' = [conn EXCEPT ![c].pc = "kill_term",
                                    ![c].cpid = current_process_id]
            /\ io' = NoIO
            /\ UNCHANGED << ws_connections, chan >>
       ELSE SendResponse(c, NoFrame, CancelResponse(conn[c].creq, TRUE),
                         [conn[c] EXCEPT !.pc = "select", !.creq = 0])
    /\ acked' = IF io'.written THEN acked \cup {conn[c].creq} ELSE acked
    /\ UNCHANGED << ltspice_path, is_simulating, current_simulation_id,
                    cancel_requested, current_process_id, wlock, detected,
                    task, njobs, nmsgs, proc, signals, delivered >>
    /\ UNCHANGED << arg, ret >>

\* Faulty variant: the graceful signal is left out
KillTermSkipped(c) ==
    /\ conn[c].pc = "kill_term"
    /\ conn' = [conn EXCEPT ![c].pc = "kill_kill"]
    /\ io' = NoIO
    /\ UNCHANGED << agent, chan, task, njobs, nmsgs, proc, signals, acked,
                    delivered >>
    /\ UNCHANGED << arg, ret >>

\* kill -15 pid
KillTerm(c) ==
    /\ conn[c].pc = "kill_term"
    /\ signals' = Append(signals, [pid |-> conn[c].cpid, sig |-> "SIGTERM",
                                   requestId |-> conn[c].creq])
    /\ conn' = [conn EXCEPT ![c].pc = "kill_kill"]
    /\ io' = NoIO
    /\ UNCHANGED << agent, chan, task, njobs, nmsgs, proc, acked, delivered >>
    /\ UNCHANGED << arg, ret >>

\* (100 ms later) kill -9 pid, then handle_cancel returns success:true.
KillKill(c) ==
    /\ conn[c].pc = "kill_kill"
    /\ signals' = Append(signals, [pid |-> conn[c].cpid, sig |-> "SIGKILL",
                                   requestId |-> conn[c].creq])
    /\ SendResponse(c, NoFrame, CancelResponse(conn[c].creq, TRUE),
                    [conn[c] EXCEPT !.pc = "select", !.creq = 0, !.cpid = 0])
    /\ acked' = IF io'.written THEN acked \cup {conn[c].creq} ELSE acked
    /\ UNCHANGED << ltspice_path, is_simulating, current_simulation_id,
                    cancel_requested, current_process_id, wlock, detected,
                    task, njobs, nmsgs, proc, delivered >>
    /\ UNCHANGED << arg, ret >>

\* Faulty variant: the response is written and left on the channel
DeliverPeek(c) ==
    /\ conn[c].st = "open"
    /\ conn[c].pc = "select"
    /\ chan[c] # << >>
    /\ io' = IO(c, NoFrame, Head(chan[c]), TRUE)
    /\ delivered' = [delivered EXCEPT ![Head(chan[c]).requestId] = @ + 1]
    /\ UNCHANGED << agent, conn, chan, task, njobs, nmsgs, proc, signals,
                    acked >>
    /\ UNCHANGED << arg, ret >>

\* The second select! arm: a response a task put on the channel is written.
Deliver(c) ==
    /\ conn[c].st = "open"
    /\ conn[c].pc = "select"
    /\ chan[c] # << >>
    /\ \/ /\ io' = IO(c, NoFrame, Head(chan[c]), TRUE)
          /\ chan' = [chan EXCEPT ![c] = Tail(chan[c])]
          /\ delivered' = [delivered EXCEPT ![Head(chan[c]).requestId] = @ + 1]
          /\ UNCHANGED << conn, ws_connections >>
       \/ /\ io' = IO(c, NoFrame, Head(chan[c]), FALSE)
          /\ Break(c)
          /\ UNCHANGED delivered
    /\ UNCHANGED << ltspice_path, is_simulating, current_simulation_id,
                    cancel_requested, current_process_id, wlock, detected,
                    task, njobs, nmsgs, proc, signals, acked >>
    /\ UNCHANGED << arg, ret >>

\* ---- main.rs: the start-up detection task ---------------------------------
DetectLtspice ==
    /\ ~detected
    /\ detected' = TRUE
    /\ ltspice_path' \in {None, LTSPICE_PATH}
    /\ io' = NoIO
    /\ UNCHANGED << is_simulating, ws_connections, current_simulation_id,
                    cancel_requested, current_process_id, wlock, conn, chan,
                    task, njobs, nmsgs, proc, signals, acked, delivered >>
    /\ UNCHANGED << arg, ret >>

\* ---- handle_simulate ----------------------------------------------------------
\* The request id of task t is t; the pid of the process it launches is t.
RequestId(t) == t
Pid(t) == t

AlreadyRunning(requestId) ==
    SimulationResponse(requestId, FALSE, None,
                       "Another simulation is already running")

NotFound(requestId) ==
    SimulationResponse(requestId, FALSE, None,
                       "LTspice not found on this system")

Cancelled(requestId) ==
    SimulationResponse(requestId, FALSE, None, "Simulation cancelled")

\* Faulty variant: the result is looked at first, the cancellation only on Err
simulation_result_first(requestId, was_cancelled, result) ==
    IF result = "ok"
    THEN SimulationResponse(requestId, TRUE, "results", None)
    ELSE IF was_cancelled THEN Cancelled(requestId)
    ELSE SimulationResponse(requestId, FALSE, None, result)

\* The response built after the run: cancellation first, then the result.
simulation_result(requestId, was_cancelled, result) ==
    IF was_cancelled THEN Cancelled(requestId)
    ELSE IF result = "ok"
         THEN SimulationResponse(requestId, TRUE, "results", None)
         ELSE SimulationResponse(requestId, FALSE, None, result)

\* Faulty variant: the rejection runs the clean-up of a finished job
SimCheckClears(t) ==
    /\ task[t].pc = "check"
    /\ wlock = 0
    /\ IF is_simulating
       THEN /\ task' = [task EXCEPT ![t].pc = "send",
                                    ![t].resp = AlreadyRunning(RequestId(t))]
            /\ is_simulating' = FALSE
            /\ current_simulation_id' = NoId
       ELSE /\ IF ltspice_path = None
               THEN task' = [task EXCEPT ![t].pc = "send",
                                         ![t].resp = NotFound(RequestId(t))]
               ELSE task' = [task EXCEPT ![t].pc = "admit"]
            /\ UNCHANGED << is_simulating, current_simulation_id >>
    /\ io' = NoIO
    /\ UNCHANGED << ltspice_path, ws_connections, cancel_requested,
                    current_process_id, wlock, detected, conn, chan, njobs,
                    nmsgs, proc, signals, acked, delivered >>
    /\ UNCHANGED << arg, ret >>

\* "Check if already simulating" and "Check if LTspice is available":
\* is_simulating, then ltspice_path, each read under its read lock, which is
\* released at once.  (ltspice_path is written by the detection task alone,
\* which reads nothing: the two reads are one step.)
SimCheck(t) ==
    /\ task[t].pc = "check"
    /\ wlock = 0
    /\ IF is_simulating
       THEN task' = [task EXCEPT ![t].pc = "send",
                                 ![t].resp = AlreadyRunning(RequestId(t))]
       ELSE IF ltspice_path = None
       THEN task' = [task EXCEPT ![t].pc = "send",
                                 ![t].resp = NotFound(RequestId(t))]
       ELSE task' = [task EXCEPT ![t].pc = "admit"]
    /\ io' = NoIO
    /\ UNCHANGED << agent, conn, chan, njobs, nmsgs, proc, signals, acked,
                    delivered >>
    /\ UNCHANGED << arg, ret >>

\* "Mark as simulating": both write guards are taken and held to the end of
\* the block; the two atomics are stored while they are held.
SimAdmit(t) ==
    /\ task[t].pc = "admit"
    /\ wlock = 0
    /\ wlock' = t
    /\ is_simulating' = TRUE
    /\ current_simulation_id' = RequestId(t)
    /\ task' = [task EXCEPT ![t].pc = "admit_cancel"]
    /\ io' = NoIO
    /\ UNCHANGED << ltspice_path, ws_connections, cancel_requested,
                    current_process_id, detected, conn, chan, njobs, nmsgs,
                    proc, signals, acked, delivered >>
    /\ UNCHANGED << arg, ret >>
SimAdmitCancel(t) ==
    /\ task[t].pc = "admit_cancel"
    /\ cancel_requested' = FALSE
    /\ task' = [task EXCEPT ![t].pc = "admit_pid"]
    /\ io' = NoIO
    /\ UNCHANGED << ltspice_path, is_simulating, ws_connections,
                    current_simulation_id, current_process_id, wlock,
                    detected, conn, chan, njobs, nmsgs, proc, signals, acked,
                    delivered >>
    /\ UNCHANGED << arg, ret >>
SimAdmitPid(t) ==
    /\ task[t].pc = "admit_pid"
    /\ current_process_id' = 0
    /\ wlock' = 0
    /\ task' = [task EXCEPT ![t].pc = "run"]
    /\ io' = NoIO
    /\ UNCHANGED << ltspice_path, is_simulating, ws_connections,
                    current_simulation_id, cancel_requested, detected, conn,
                    chan, njobs, nmsgs, proc, signals, acked, delivered >>
    /\ UNCHANGED << arg, ret >>

\* Faulty variant: an Err before the spawn returns from handle_simulate at once,
\* past the "Mark as not simulating" block
RunLaunchEarlyReturn(t) ==
    /\ task[t].pc = "run"
    /\ \/ /\ proc' = [proc EXCEPT ![t] = "running"]
          /\ task' = [task EXCEPT ![t].pc = "store_pid"]
       \/ /\ task' = [task EXCEPT ![t].pc = "send",
                          ![t].result = "launch_error",
                          ![t].resp = SimulationResponse(RequestId(t), FALSE,
                                                         None, "launch_error")]
          /\ UNCHANGED proc
    /\ io' = NoIO
    /\ UNCHANGED << agent, conn, chan, njobs, nmsgs, signals, acked,
                    delivered >>
    /\ UNCHANGED << arg, ret >>

\* run_ltspice_simulation up to the spawn: an Err before the process exists
\* (temp directory, includes, write, spawn) returns at once, and "Check if
\* cancelled" loads the flag; otherwise the child is spawned and its pid
\* stored in the holder.
RunLaunch(t) ==
    /\ task[t].pc = "run"
    /\ \/ /\ proc' = [proc EXCEPT ![t] = "running"]
          /\ task' = [task EXCEPT ![t].pc = "store_pid"]
       \/ /\ task' = [task EXCEPT ![t].pc = "reset",
                                   ![t].was_cancelled = cancel_requested]
          /\ UNCHANGED proc
    /\ io' = NoIO
    /\ UNCHANGED << agent, conn, chan, njobs, nmsgs, signals, acked,
                    delivered >>
    /\ UNCHANGED << arg, ret >>

\* child.id() is stored in the holder, the process already running.
RunStorePid(t) ==
    /\ task[t].pc = "store_pid"
    /\ current_process_id' = Pid(t)
    /\ task' = [task EXCEPT ![t].pc = "wait"]
    /\ io' = NoIO
    /\ UNCHANGED << ltspice_path, is_simulating, ws_connections,
                    current_simulation_id, cancel_requested, wlock, detected,
                    conn, chan, njobs, nmsgs, proc, signals, acked,
                    delivered >>
    /\ UNCHANGED << arg, ret >>

\* The external process ends, by itself or by a signal.
ProcExit(t) ==
    /\ proc[t] = "running"
    /\ proc' = [proc EXCEPT ![t] = "exited"]
    /\ io' = NoIO
    /\ UNCHANGED << agent, conn, chan, task, njobs, nmsgs, signals, acked,
                    delivered >>
    /\ UNCHANGED << arg, ret >>

\* wait_with_output returns, the run returns, and "Check if cancelled" loads
\* the flag.
RunReturn(t) ==
    /\ task[t].pc = "wait"
    /\ proc[t] = "exited"
    /\ task' = [task EXCEPT ![t].pc = "reset",
                            ![t].was_cancelled = cancel_requested]
    /\ io' = NoIO
    /\ UNCHANGED << agent, conn, chan, njobs, nmsgs, proc, signals, acked,
                    delivered >>
    /\ UNCHANGED << arg, ret >>

\* What run_ltspice_simulation returned: an Err from before the process
\* existed when none was launched; otherwise by the exit status, the presence
\* of circuit.raw and the decoder's verdict.
RunResult(launched, status_success, raw_exists, parse_ok) ==
    IF ~launched THEN "launch_error"
    ELSE IF ~status_success THEN "exit_failure"
    ELSE IF ~raw_exists THEN "missing_raw"
    ELSE IF ~parse_ok THEN "decode_error"
    ELSE "ok"

\* Faulty variant: the current job's id is left in place
SimResetKeepsId(t) ==
    /\ task[t].pc = "reset"
    /\ wlock = 0
    /\ wlock' = t
    /\ is_simulating' = FALSE
    /\ task' = [task EXCEPT ![t].pc = "reset_cancel"]
    /\ io' = NoIO
    /\ UNCHANGED << ltspice_path, ws_connections, cancel_requested,
                    current_simulation_id, current_process_id, detected,
                    conn, chan, njobs, nmsgs, proc, signals, acked,
                    delivered >>
    /\ UNCHANGED << arg, ret >>

\* "Mark as not simulating": the same block shape as the admission.
SimReset(t) ==
    /\ task[t].pc = "reset"
    /\ wlock = 0
    /\ wlock' = t
    /\ is_simulating' = FALSE
    /\ current_simulation_id' = NoId
    /\ task' = [task EXCEPT ![t].pc = "reset_cancel"]
    /\ io' = NoIO
    /\ UNCHANGED << ltspice_path, ws_connections, cancel_requested,
                    current_process_id, detected, conn, chan, njobs, nmsgs,
                    proc, signals, acked, delivered >>
    /\ UNCHANGED << arg, ret >>
SimResetCancel(t) ==
    /\ task[t].pc = "reset_cancel"
    /\ cancel_requested' = FALSE
    /\ task' = [task EXCEPT ![t].pc = "reset_pid"]
    /\ io' = NoIO
    /\ UNCHANGED << ltspice_path, is_simulating, ws_connections,
                    current_simulation_id, current_process_id, wlock,
                    detected, conn, chan, njobs, nmsgs, proc, signals, acked,
                    delivered >>
    /\ UNCHANGED << arg, ret >>

\* The block ends and the response is built from the flag loaded and from
\* what the run returned (nothing has looked at the run's result before).
SimResetPid(t) ==
    /\ task[t].pc = "reset_pid"
    /\ current_process_id' = 0
    /\ wlock' = 0
    /\ \E status_success, raw_exists, parse_ok \in BOOLEAN :
         LET result == RunResult(proc[t] # "none", status_success, raw_exists,
                                 parse_ok)
         IN task' = [task EXCEPT ![t].pc = "send", ![t].result = result,
                        ![t].resp = simulation_result(RequestId(t),
                                        task[t].was_cancelled, result)]
    /\ io' = NoIO
    /\ UNCHANGED << ltspice_path, is_simulating, ws_connections,
                    current_simulation_id, cancel_requested, detected, conn,
                    chan, njobs, nmsgs, proc, signals, acked, delivered >>
    /\ UNCHANGED << arg, ret >>

\* sim_tx_clone.send(response): waits for the one slot; an Err (the receiver
\* is gone) is ignored.  The task ends and its response is dropped with it.
SimSend(t) ==
    /\ task[t].pc = "send"
    /\ IF conn[task[t].conn].st = "closed"
       THEN UNCHANGED chan
       ELSE /\ Len(chan[task[t].conn]) < 1
            /\ chan' = [chan EXCEPT ![task[t].conn] = Append(@, task[t].resp)]
    /\ task' = [task EXCEPT ![t] = [NoTask EXCEPT !.pc = "done",
                                                  !.conn = task[t].conn]]
    /\ io' = NoIO
    /\ UNCHANGED << agent, conn, njobs, nmsgs, proc, signals, acked,
                    delivered >>
    /\ UNCHANGED << arg, ret >>
\* ---- the system ----------------------------------------------------------------
Next ==
    \/ DetectLtspice
    \/ \E c \in Conns :
         \/ Accept(c)
         \/ ReadEnd(c)
         \/ CancelStore(c)
         \/ CancelLoad(c)
         \/ KillTerm(c)
         \/ KillKill(c)
         \/ Deliver(c)
         \/ \E f \in Frames :
              \/ OnIgnored(c, f)
              \/ OnUndecodable(c, f)
              \/ OnHandshake(c, f)
              \/ OnSimulateEarly(c, f)
              \/ OnSimulate(c, f)
              \/ OnPing(c, f)
              \/ OnCancel(c, f)
    \/ \E t \in Jobs :
         \/ SimCheck(t)
         \/ SimAdmit(t)
         \/ SimAdmitCancel(t)
         \/ SimAdmitPid(t)
         \/ RunLaunch(t)
         \/ RunStorePid(t)
         \/ ProcExit(t)
         \/ RunReturn(t)
         \/ SimReset(t)
         \/ SimResetCancel(t)
         \/ SimResetPid(t)
         \/ SimSend(t)

Spec == Init /\ [][Next]_vars

\* A spawned task runs whenever it can: every step of handle_simulate but the
\* exit of the external process, which is the simulator's own.
TaskStep(t) ==
    \/ SimCheck(t)
    \/ SimAdmit(t)
    \/ SimAdmitCancel(t)
    \/ SimAdmitPid(t)
    \/ RunLaunch(t)
    \/ RunStorePid(t)
    \/ RunReturn(t)
    \/ SimReset(t)
    \/ SimResetCancel(t)
    \/ SimResetPid(t)
    \/ SimSend(t)

\* A connection task goes on with the handler it is in and polls its channel;
\* whether the peer sends a frame or hangs up is the peer's own.
ConnStep(c) ==
    \/ CancelStore(c)
    \/ CancelLoad(c)
    \/ KillTerm(c)
    \/ KillKill(c)
    \/ Deliver(c)

\* The tokio runtime schedules every task that is ready.
FairSpec ==
    /\ Spec
    /\ \A t \in Jobs : WF_vars(TaskStep(t))
    /\ \A c \in Conns : WF_vars(ConnStep(c))

\* ---- the system after a first handshake ---------------------------------------
\* The state after connection 1 has been accepted and has completed its
\* handshake, the detection task not having run yet; frames are counted from
\* there.
HandshakenInit ==
    /\ ltspice_path = None
    /\ is_simulating = FALSE
    /\ ws_connections = 1
    /\ current_simulation_id = NoId
    /\ cancel_requested = FALSE
    /\ current_process_id = 0
    /\ wlock = 0
    /\ detected = FALSE
    /\ conn = [c \in Conns |->
                 IF c = 1
                 THEN [NewConn EXCEPT !.st = "open", !.handshake_complete = TRUE]
                 ELSE NewConn]
    /\ chan = [c \in Conns |-> << >>]
    /\ task = [t \in Jobs |-> NoTask]
    /\ njobs = 0
    /\ nmsgs = 0
    /\ proc = [t \in Jobs |-> "none"]
    /\ signals = << >>
    /\ io = NoIO
    /\ acked = {}
    /\ delivered = [t \in Jobs |-> 0]
    /\ arg = NoArg
    /\ ret = NoRet

HandshakenSpec == HandshakenInit /\ [][Next]_vars

\* ---- simulator.rs: prepare_netlist ----------------------------------------
\* A netlist is a string, here a sequence of pieces: a line feed, a carriage
\* return, or a piece of text that holds neither.
LF == "\n"
CR == "\r"

\* The pieces of text of the netlists tried, and the lines the function adds.
NetlistText ==
    {"R1 in out 1k", ".end", " .END", ".BACKANNO", ".save V(out)",
     ".options plotwinsize=64"}
Pieces == NetlistText \cup {LF, CR}
Netlists == UNION { [1..n -> Pieces] : n \in 0..MaxNetlistLen }
Qualities == {"fast", "balanced", "smooth", "FAST"}

\* The pieces whose lower case holds ".backanno", ".save",
\* ".options plotwinsize"; those that trim and lower to ".end".
BackannoText == {".BACKANNO", ".backanno"}
SaveText == {".save V(out)", ".save all"}
PlotwinsizeText ==
    {".options plotwinsize=0", ".options plotwinsize=128",
     ".options plotwinsize=64"}
EndText == {".end", " .END"}

\* netlist.to_lowercase().contains(directive)
Contains(netlist, text) == \E i \in 1..Len(netlist) : netlist[i] \in text

\* str::lines: the string is cut after each line feed; a piece that ends
\* with a line feed loses it, and then one carriage return before it; what
\* follows the last line feed is a line only if it is not empty.
RECURSIVE Lines(_)
Lines(s) ==
    IF s = << >> THEN << >>
    ELSE IF \A i \in 1..Len(s) : s[i] # LF THEN << s >>
    ELSE LET k == CHOOSE i \in 1..Len(s) :
                      s[i] = LF /\ \A j \in 1..(i - 1) : s[j] # LF
             line == SubSeq(s, 1, k - 1)
         IN << IF line # << >> /\ line[Len(line)] = CR
               THEN SubSeq(line, 1, Len(line) - 1)
               ELSE line >>
            \o Lines(SubSeq(s, k + 1, Len(s)))

\* lines.join("\n")
RECURSIVE Join(_)
Join(lines) ==
    IF lines = << >> THEN << >>
    ELSE IF Len(lines) = 1 THEN lines[1]
    ELSE lines[1] \o << LF >> \o Join(Tail(lines))

\* str::trim on a line: the white space at both ends goes.
RECURSIVE Trim(_)
Trim(line) ==
    IF line = << >> THEN line
    ELSE IF line[1] = CR THEN Trim(Tail(line))
    ELSE IF line[Len(line)] = CR THEN Trim(SubSeq(line, 1, Len(line) - 1))
    ELSE line

\* l.trim().to_lowercase() == ".end"
IsEnd(line) == Trim(line) \in { << e >> : e \in EndText }

\* if let Some(end_idx) = lines.iter().position(..) { lines.insert(end_idx, ..) }
InsertBeforeEnd(lines, text) ==
    IF \E i \in 1..Len(lines) : IsEnd(lines[i])
    THEN LET end_idx == CHOOSE i \in 1..Len(lines) :
                            IsEnd(lines[i])
                            /\ \A j \in 1..(i - 1) : ~IsEnd(lines[j])
         IN SubSeq(lines, 1, end_idx - 1) \o << << text >> >>
            \o SubSeq(lines, end_idx, Len(lines))
    ELSE lines

\* Faulty variant: every hint but "balanced" gives 128.
PlotwinsizeLineCoarse(waveform_quality) ==
    IF waveform_quality = "balanced" THEN ".options plotwinsize=0"
    ELSE ".options plotwinsize=128"

\* format!(".options plotwinsize={}", plotwinsize)
PlotwinsizeLine(waveform_quality) ==
    IF waveform_quality = "fast" THEN ".options plotwinsize=128"
    ELSE ".options plotwinsize=0"

\* Faulty variant: .backanno is inserted without looking for one
prepare_netlist_unguarded(netlist, waveform_quality) ==
    LET lines == Lines(netlist)
        lines1 == InsertBeforeEnd(lines, ".backanno")
        lines2 == IF ~Contains(netlist, SaveText)
                  THEN InsertBeforeEnd(lines1, ".save all") ELSE lines1
        lines3 == IF ~Contains(netlist, PlotwinsizeText)
                  THEN InsertBeforeEnd(lines2,
                                       PlotwinsizeLine(waveform_quality))
                  ELSE lines2
    IN Join(lines3)

prepare_netlist(netlist, waveform_quality) ==
    LET lines == Lines(netlist)
        lines1 == IF ~Contains(netlist, BackannoText)
                  THEN InsertBeforeEnd(lines, ".backanno") ELSE lines
        lines2 == IF ~Contains(netlist, SaveText)
                  THEN InsertBeforeEnd(lines1, ".save all") ELSE lines1
        lines3 == IF ~Contains(netlist, PlotwinsizeText)
                  THEN InsertBeforeEnd(lines2,
                                       PlotwinsizeLine(waveform_quality))
                  ELSE lines2
    IN Join(lines3)

\* The function is called on a netlist, then on what it returned.
PrepareInit ==
    /\ AgentInit
    /\ arg \in { [fn |-> "prepare_netlist", netlist |-> n,
                  waveform_quality |-> q, calls |-> 0] :
                 n \in Netlists, q \in Qualities }
    /\ ret = NoRet

Prepare ==
    /\ arg.fn = "prepare_netlist"
    /\ arg.calls < MaxCalls
    /\ ret' = [ok |-> "Ok",
               value |-> prepare_netlist(IF arg.calls = 0 THEN arg.netlist
                                         ELSE ret.value,
                                         arg.waveform_quality)]
    /\ arg' = [arg EXCEPT !.calls = @ + 1]
    /\ UNCHANGED << agent, conn, chan, task, njobs, nmsgs, proc, signals, io,
                    acked, delivered >>

PrepareSpec == PrepareInit /\ [][Prepare]_vars

\* ---- simulator.rs: the result decoders --------------------------------------
\* An artifact is given by what a decoder reads from it: the header fields,
\* the number of lines of the Variables block that list a variable, and the
\* data region. A binary region is given by its length in bytes (in steps of
\* four: the decoders only compare the length with offsets that are
\* multiples of four), and a value decoded from it is named by the offset it
\* was read at. An ASCII region is given by the kind of each of its non-empty
\* lines, and a value decoded from it is named by its line. The analysis type
\* and the axis label of a result are left out.
BinaryLengths == { 4 * w : w \in 0..(2 * MaxVars * MaxPoints) }

\* "new": <index> TAB <value>; "cont": TAB <value>; "junk": a line without a
\* leading index whose text is not a number.
ValueLines == {"new", "cont", "junk"}

AsciiRegions == UNION { [1..n -> ValueLines] : n \in 0..MaxLines }

\* Format A: what parse_raw_file reads.
ArtifactsA ==
    { [fmt |-> "A", num_vars |-> n, num_points |-> p, variables |-> v,
       is_double |-> d, marker |-> m, binary |-> b] :
        n \in 0..MaxVars, p \in 0..MaxPoints, v \in 0..MaxVars,
        d \in BOOLEAN, m \in BOOLEAN, b \in BinaryLengths }

\* Format B: what parse_ngspice_raw_file reads, after a Binary: marker or
\* after a Values: marker.
ArtifactsB ==
    { [fmt |-> "B", num_vars |-> n, num_points |-> p, variables |-> v,
       is_complex |-> x, is_binary |-> TRUE, binary |-> b, values |-> << >>] :
        n \in 0..MaxVars, p \in 0..MaxPoints, v \in 0..MaxVars,
        x \in BOOLEAN, b \in BinaryLengths }
    \cup
    { [fmt |-> "B", num_vars |-> n, num_points |-> p, variables |-> v,
       is_complex |-> x, is_binary |-> FALSE, binary |-> 0, values |-> l] :
        n \in 0..MaxVars, p \in 0..MaxPoints, v \in 0..MaxVars,
        x \in BOOLEAN, l \in AsciiRegions }

Err(error) == [ok |-> "Err", error |-> error]

SimulationResults(time, traces) == [ok |-> "Ok", time |-> time, traces |-> traces]

\* variables.iter().enumerate().skip(1): one trace per listed variable but the
\* first, with the vector of the same index if there is one.
Traces(variables, all_data) ==
    [i \in 1..(variables - 1) |->
        [name |-> i,
         data |-> IF i + 1 <= Len(all_data) THEN all_data[i + 1] ELSE << >>]]

\* read_f64_le, read_f32_le fail when the value ends beyond the data.
read_le(len, offset, width) == offset + width <= len

bytes_per_point(num_vars, is_double) ==
    IF is_double THEN num_vars * 8 ELSE 8 + (num_vars - 1) * 4

\* Where parse_raw_file reads the value of variable var at a point.
OffsetA(a, point, var) ==
    LET point_offset == point * bytes_per_point(a.num_vars, a.is_double)
    IN  IF var = 0 THEN point_offset
        ELSE IF a.is_double THEN point_offset + var * 8
        ELSE point_offset + 8 + (var - 1) * 4

WidthA(a, var) == IF var = 0 \/ a.is_double THEN 8 ELSE 4

\* Faulty variant: a binary region that is too short is decoded as far as
\* it holds whole points.
parse_raw_file_truncating(a) ==
    IF a.num_vars = 0 \/ a.num_points = 0
    THEN Err("Could not parse raw file header")
    ELSE IF ~a.marker
    THEN Err("Could not find binary data marker")
    ELSE LET width == bytes_per_point(a.num_vars, a.is_double)
             held == { p \in 1..a.num_points : p * width <= a.binary }
             all_data == [var \in 1..a.num_vars |->
                            [point \in 1..Cardinality(held) |->
                                OffsetA(a, point - 1, var - 1)]]
         IN  SimulationResults(all_data[1], Traces(a.variables, all_data))

parse_raw_file(a) ==
    IF a.num_vars = 0 \/ a.num_points = 0
    THEN Err("Could not parse raw file header")
    ELSE IF ~a.marker
    THEN Err("Could not find binary data marker")
    ELSE LET expected_size == a.num_points * bytes_per_point(a.num_vars, a.is_double)
             all_data == [var \in 1..a.num_vars |->
                            [point \in 1..a.num_points |->
                                OffsetA(a, point - 1, var - 1)]]
         IN  IF a.binary < expected_size
             THEN Err("Binary data too short")
             ELSE IF \E point \in 0..(a.num_points - 1), var \in 0..(a.num_vars - 1) :
                        ~read_le(a.binary, OffsetA(a, point, var), WidthA(a, var))
             THEN Err("Buffer overflow")
             ELSE SimulationResults(all_data[1], Traces(a.variables, all_data))

\* The binary loop of parse_ngspice_raw_file: points are decoded until the
\* first one that does not fit; a value is pushed when its reads succeed.
BinaryValues(a) ==
    LET values_per_var == IF a.is_complex THEN 2 ELSE 1
        bytes_per_point_b == a.num_vars * values_per_var * 8
        decoded == { point \in 0..(a.num_points - 1) :
                       \A q \in 0..point :
                           q * bytes_per_point_b + bytes_per_point_b <= a.binary }
        Offset(point, var) == point * bytes_per_point_b + var * values_per_var * 8
        Fits(offset) == read_le(a.binary, offset, values_per_var * 8)
    IN  [var \in 1..a.num_vars |->
            SelectSeq([point \in 1..Cardinality(decoded) |-> Offset(point - 1, var - 1)],
                      Fits)]

\* The line loop of parse_ngspice_raw_file: a new-point line resets
\* current_var_index; a value that parses is pushed to the vector of
\* current_var_index if there is one, and current_var_index moves on.
RECURSIVE AsciiValues(_, _, _, _)
AsciiValues(lines, i, current_var_index, all_data) ==
    IF i > Len(lines) THEN all_data
    ELSE LET index == IF lines[i] = "new" THEN 0 ELSE current_var_index
         IN  IF lines[i] = "junk"
             THEN AsciiValues(lines, i + 1, index, all_data)
             ELSE AsciiValues(lines, i + 1, index + 1,
                              IF index < Len(all_data)
                              THEN [all_data EXCEPT ![index + 1] = Append(@, i)]
                              ELSE all_data)

parse_ngspice_raw_file(a) ==
    IF a.num_vars = 0 \/ a.variables = 0
    THEN Err("Could not parse ngspice raw file header")
    ELSE LET all_data == IF a.is_binary
                         THEN BinaryValues(a)
                         ELSE AsciiValues(a.values, 1, 0, [var \in 1..a.num_vars |-> << >>])
         IN  IF all_data[1] = << >>
             THEN Err("Could not parse ngspice raw file - no data found")
             ELSE SimulationResults(all_data[1], Traces(a.variables, all_data))

DecodeInit ==
    /\ AgentInit
    /\ arg \in { [fn |-> "parse_raw_file", artifact |-> a, calls |-> 0] : a \in ArtifactsA }
           \cup { [fn |-> "parse_ngspice_raw_file", artifact |-> a, calls |-> 0] : a \in ArtifactsB }
    /\ ret = NoRet

ParseRaw ==
    /\ arg.fn = "parse_raw_file"
    /\ arg.calls = 0
    /\ ret' = parse_raw_file(arg.artifact)
    /\ arg' = [arg EXCEPT !.calls = 1]
    /\ UNCHANGED << agent, conn, chan, task, njobs, nmsgs, proc, signals, io, acked, delivered >>

ParseNgspice ==
    /\ arg.fn = "parse_ngspice_raw_file"
    /\ arg.calls = 0
    /\ ret' = parse_ngspice_raw_file(arg.artifact)
    /\ arg' = [arg EXCEPT !.calls = 1]
    /\ UNCHANGED << agent, conn, chan, task, njobs, nmsgs, proc, signals, io, acked, delivered >>

DecodeSpec == DecodeInit /\ [][ParseRaw \/ ParseNgspice]_vars

\* ---- simulator.rs: extract_ngspice_error -----------------------------------
\* The output is given by its lines (output.lines()); a line is its text
\* without the white space around it (line.trim()) and whether it starts
\* with a space or a tab.
OutputText ==
    {"Circuit: * test", "Note: no problems", "Warning: line 3 unused",
     "Simulation completed with 0 errors", "Error: real error here",
     "line 5:", "run ended with 10 errors"}

OutputLines == [indent : BOOLEAN, text : OutputText]

Outputs == UNION { [1..n -> OutputLines] : n \in 0..MaxOutputLen }

\* What the lower case of a text contains.
HasNote(text) == text \in {"Note: no problems"}
HasWarning(text) == text \in {"Warning: line 3 unused"}
HasZeroError(text) ==
    text \in {"Simulation completed with 0 errors", "run ended with 10 errors"}
HasError(text) ==
    text \in {"Simulation completed with 0 errors", "Error: real error here",
              "run ended with 10 errors"}
HasLine(text) == text \in {"Warning: line 3 unused", "line 5:"}
HasColon(text) ==
    text \in {"Circuit: * test", "Note: no problems", "Warning: line 3 unused",
              "Error: real error here", "line 5:"}
HasNumeric(text) ==
    text \in {"Warning: line 3 unused", "Simulation completed with 0 errors",
              "line 5:", "run ended with 10 errors"}

\* The for loop over the lines: error_lines and found_error after it.
RECURSIVE ErrorLines(_, _, _, _)
ErrorLines(lines, i, error_lines, found_error) ==
    IF i > Len(lines)
    THEN [error_lines |-> error_lines, found_error |-> found_error]
    ELSE LET line == lines[i].text
         IN  IF HasNote(line) \/ HasWarning(line) \/ HasZeroError(line)
             THEN ErrorLines(lines, i + 1, error_lines, found_error)
             ELSE IF HasError(line)
             THEN LET with_prev ==
                          IF /\ i > 1
                             /\ HasLine(lines[i - 1].text)
                             /\ HasNumeric(lines[i - 1].text)
                             /\ \A k \in 1..Len(error_lines) :
                                    error_lines[k] # lines[i - 1].text
                          THEN Append(error_lines, lines[i - 1].text)
                          ELSE error_lines
                      with_line == Append(with_prev, line)
                      with_next ==
                          IF i + 1 <= Len(lines) /\ lines[i + 1].indent
                          THEN Append(with_line, lines[i + 1].text)
                          ELSE with_line
                  IN  ErrorLines(lines, i + 1, with_next, TRUE)
             ELSE IF HasLine(line) /\ HasColon(line) /\ HasNumeric(line)
             THEN ErrorLines(lines, i + 1, Append(error_lines, line), TRUE)
             ELSE ErrorLines(lines, i + 1, error_lines, found_error)

\* filter(|line| seen.insert(line.clone())): the first of each kept, in order.
RECURSIVE unique_lines(_)
unique_lines(error_lines) ==
    IF error_lines = << >> THEN << >>
    ELSE LET rest == SubSeq(error_lines, 1, Len(error_lines) - 1)
             last == error_lines[Len(error_lines)]
         IN  IF \E k \in 1..Len(rest) : rest[k] = last
             THEN unique_lines(rest)
             ELSE Append(unique_lines(rest), last)

extract_ngspice_error(output) ==
    LET scan == ErrorLines(output, 1, << >>, FALSE)
    IN  IF scan.error_lines # << >>
        THEN [ok |-> "Some",
              value |-> Join([k \in 1..Len(unique_lines(scan.error_lines)) |->
                                << unique_lines(scan.error_lines)[k] >>])]
        ELSE IF scan.found_error
        THEN [ok |-> "Some", value |-> << "ngspice simulation failed" >>]
        ELSE [ok |-> "None"]

ExtractInit ==
    /\ AgentInit
    /\ arg \in { [fn |-> "extract_ngspice_error", output |-> o, calls |-> 0] :
                 o \in Outputs }
    /\ ret = NoRet

Extract ==
    /\ arg.fn = "extract_ngspice_error"
    /\ arg.calls = 0
    /\ ret' = extract_ngspice_error(arg.output)
    /\ arg' = [arg EXCEPT !.calls = 1]
    /\ UNCHANGED << agent, conn, chan, task, njobs, nmsgs, proc, signals, io,
                    acked, delivered >>

ExtractSpec == ExtractInit /\ [][Extract]_vars

\* ---- simulator.rs: run_ltspice_simulation, after the process has exited ----
\* A stream or a file is given by its bytes, written as text with <B5> for
\* a byte that is not UTF-8; NoFile is a file that is not on disk.
NoFile == "NoFile"
NoRaw == [fmt |-> NoFile]
NotUtf8 == {"C1 4.7<B5>F"}
Stderrs == {"", "Fatal error", "C1 4.7<B5>F"}
LogFiles == {NoFile, "Fatal error", "C1 4.7<B5>F"}
Outputs_ltspice == [status_success : BOOLEAN, stderr : Stderrs]

\* String::from_utf8_lossy: a byte that is not UTF-8 becomes U+FFFD.
from_utf8_lossy(bytes) == IF bytes \in NotUtf8 THEN "C1 4.7<FFFD>F" ELSE bytes

\* std::fs::read_to_string(..).unwrap_or_default(): the empty string for a
\* file that is missing or is not UTF-8.
read_to_string_or_default(file) ==
    IF file = NoFile \/ file \in NotUtf8 THEN "" ELSE file

\* Faulty variant: the artifact is decoded whenever it is on disk, whatever
\* the exit status.
run_ltspice_simulation_lenient(output, log, raw) ==
    IF raw.fmt = NoFile
    THEN [ok |-> "Err", read |-> FALSE,
          error |-> << "No .raw file generated - simulation may have failed" >>]
    ELSE [read |-> TRUE] @@ parse_raw_file(raw)

\* Lines 735-756. The field read tells whether parse_raw_file was called.
run_ltspice_simulation(output, log, raw) ==
    IF ~output.status_success
    THEN [ok |-> "Err", read |-> FALSE,
          error |-> << "LTspice failed: ", from_utf8_lossy(output.stderr), LF,
                       read_to_string_or_default(log) >>]
    ELSE IF raw.fmt = NoFile
    THEN [ok |-> "Err", read |-> FALSE,
          error |-> << "No .raw file generated - simulation may have failed" >>]
    ELSE [read |-> TRUE] @@ parse_raw_file(raw)

RunInit ==
    /\ AgentInit
    /\ arg \in { [fn |-> "run_ltspice_simulation", output |-> o, log |-> l,
                  raw |-> r, calls |-> 0] :
                 o \in Outputs_ltspice, l \in LogFiles,
                 r \in {NoRaw} \cup ArtifactsA }
    /\ ret = NoRet

RunTail ==
    /\ arg.fn = "run_ltspice_simulation"
    /\ arg.calls = 0
    /\ ret' = run_ltspice_simulation(arg.output, arg.log, arg.raw)
    /\ arg' = [arg EXCEPT !.calls = 1]
    /\ UNCHANGED << agent, conn, chan, task, njobs, nmsgs, proc, signals, io,
                    acked, delivered >>

RunSpec == RunInit /\ [][RunTail]_vars

\* ---- properties ------------------------------------------------------------
Running == { t \in Jobs : proc[t] = "running" }

\* A job between its "Mark as simulating" and its "Mark as not simulating".
JobInProgress(t) ==
    task[t].pc \in {"admit_cancel", "admit_pid", "run", "store_pid", "wait",
                    "reset"}

\* The run call of job t has returned, or is about to: no process of t's runs.
RunOver(t) ==
    \/ task[t].pc = "wait" /\ proc[t] = "exited"
    \/ task[t].pc = "reset"

\* The last step wrote a simulation_result to a socket.
ResultWritten == io.written /\ io.out.type = "simulation_result"

\* C1: at most one external simulator process launched by handle_simulate is
\* running at any instant, under every interleaving of simulate requests.
C1_SingleProcess == Cardinality(Running) <= 1

\* C2: a handle_simulate that observes is_simulating = TRUE returns the failed
\* "Another simulation is already running" result echoing the request id,
\* launches no process and leaves is_simulating, current_simulation_id,
\* cancel_requested and current_process_id as they were.
C2_BusyRejected ==
    [][\A t \in Jobs :
         (task[t].pc = "check" /\ is_simulating /\ task'[t].pc # "check")
         => /\ task'[t].pc = "send"
            /\ task'[t].resp =
                 SimulationResponse(RequestId(t), FALSE, None,
                                    "Another simulation is already running")
            /\ proc' = proc
            /\ UNCHANGED JobState]_vars

C2_Witness ==
    \E t, u \in Jobs :
        /\ task[t].pc = "send"
        /\ task[t].resp.error = "Another simulation is already running"
        /\ proc[t] = "none"
        /\ proc[u] = "running"
        /\ is_simulating
        /\ current_simulation_id = RequestId(u)

\* C3: once a cancel_response success:true has been written for request id X,
\* the simulation_result written for X afterwards is the cancelled failure.
C3_AckedCancelIsReported ==
    (ResultWritten /\ io.out.requestId \in acked)
    => (~io.out.success /\ io.out.error = "Simulation cancelled")

\* C4: a simulate request accepted on an open connection gets exactly one
\* simulation_result with its id, on that connection: never two, never on
\* another connection; once its task has ended, the one result is written
\* or waits on the connection's channel, and a task that has its result
\* ready leads to the result written or the connection closed.
Pending(t) ==
    IF /\ chan[task[t].conn] # << >>
       /\ Head(chan[task[t].conn]).requestId = RequestId(t)
    THEN 1 ELSE 0

\* The result of task t is written, or its connection is gone.
Answered(t) ==
    IF task[t].conn = 0 THEN FALSE
    ELSE delivered[t] = 1 \/ conn[task[t].conn].st = "closed"

C4_OneResult ==
    /\ \A t \in Jobs : delivered[t] <= 1
    /\ \A t \in Jobs :
         (task[t].pc = "done" /\ conn[task[t].conn].st = "open")
         => delivered[t] + Pending(t) = 1
    /\ \A t \in Jobs :
         (task[t].pc \notin {"unborn", "done"}) => delivered[t] = 0
    /\ ResultWritten => io.conn = task[io.out.requestId].conn
    /\ \A c \in Conns :
         chan[c] # << >> => task[Head(chan[c]).requestId].conn = c

C4_ExactlyOneResult ==
    /\ []C4_OneResult
    /\ \A t \in Jobs :
         (task[t].pc = "send")
         ~> Answered(t)

C4_Witness ==
    \E t \in Jobs :
        /\ ResultWritten
        /\ io.out.requestId = RequestId(t)
        /\ delivered[t] = 1
        /\ task[t].pc = "done"
        /\ \A c \in Conns : conn[c].st = "open"
        /\ io.conn = task[t].conn

\* C5: whenever no job is between its admission and its reset, is_simulating
\* is FALSE and current_simulation_id is empty, however the jobs ended; and
\* a job whose run is over leads to its own reset of the two.
C5_Idle ==
    (\A t \in Jobs : ~JobInProgress(t))
    => (~is_simulating /\ current_simulation_id = NoId)

C5_BusyFlagReset ==
    /\ []C5_Idle
    /\ \A t \in Jobs : RunOver(t) ~> ~JobInProgress(t)

C5_Witness ==
    /\ \A t \in Jobs : ~JobInProgress(t)
    /\ ~is_simulating
    /\ \E t \in Jobs :
         /\ task[t].pc = "send"
         /\ task[t].was_cancelled
         /\ proc[t] = "exited"

\* C6: a cancel naming an id that is not the current job's, or sent when no
\* job is current, is answered success:false with its requestId, sets no
\* cancel flag and sends no signal.
C6_UnmatchedCancel ==
    [][\A c \in Conns :
         ( /\ nmsgs' = nmsgs + 1
           /\ io'.conn = c
           /\ io'.in.kind = "cancel"
           /\ io'.in.ok
           /\ current_simulation_id # io'.in.requestId )
         => /\ io'.out = [type |-> "cancel_response",
                          requestId |-> io'.in.requestId, success |-> FALSE]
            /\ cancel_requested' = cancel_requested
            /\ signals' = signals
            /\ conn'[c].pc = "select"]_vars

C6_Witness ==
    /\ io.in.kind = "cancel"
    /\ io.in.ok
    /\ io.written
    /\ io.out = [type |-> "cancel_response", requestId |-> io.in.requestId,
                 success |-> FALSE]
    /\ current_simulation_id # NoId
    /\ current_simulation_id # io.in.requestId
    /\ Running # {}
    /\ ~cancel_requested
    /\ signals = << >>

\* C7: a job whose load of cancel_requested after the run saw TRUE reports the
\* cancelled failure, without results, whatever the run returned.
C7_CancelFirst ==
    \A t \in Jobs :
        (task[t].pc = "send" /\ task[t].was_cancelled)
        => task[t].resp = [type |-> "simulation_result",
                           requestId |-> RequestId(t), success |-> FALSE,
                           results |-> None,
                           error |-> "Simulation cancelled"]

C7_Witness ==
    \E t \in Jobs :
        /\ task[t].pc = "send"
        /\ task[t].was_cancelled
        /\ task[t].result = "ok"
        /\ task[t].resp.error = "Simulation cancelled"

\* C8: once a handshake has succeeded on a connection, the connection stays
\* Active until it closes, whatever frames arrive on it.
C8_HandshakeForward ==
    [][\A c \in Conns :
         (conn[c].handshake_complete /\ conn'[c].st = "open")
         => conn'[c].handshake_complete]_vars

\* C9: a handshake whose origin is not on the allow-list is answered
\* success:false with an error, both availability flags FALSE, no analyses
\* and no ltspicePath, whatever the agent state; the connection stays open,
\* its handshake not complete.
C9_OriginRejected ==
    (io.in.kind = "handshake" /\ io.in.ok /\ io.in.origin \notin ALLOWED_ORIGINS)
    => /\ io.out.type = "handshake_response"
       /\ ~io.out.success
       /\ io.out.error = "Invalid origin"
       /\ ~io.out.ltspiceAvailable
       /\ ~io.out.ngspiceAvailable
       /\ io.out.supportedAnalyses = << >>
       /\ io.out.ltspicePath = None
       /\ io.written => /\ conn[io.conn].st = "open"
                        /\ ~conn[io.conn].handshake_complete

C9_Witness ==
    /\ io.in.kind = "handshake"
    /\ io.in.origin = "https://kelicad.com.evil.com"
    /\ io.written
    /\ ~io.out.success
    /\ ltspice_path # None
    /\ is_simulating
    /\ conn[io.conn].st = "open"

\* C10: a simulate frame on a connection whose handshake has not succeeded is
\* answered by nothing, spawns no task, starts no process, changes no
\* AppState field and leaves the connection open.
C10_EarlySimulateDropped ==
    [][\A c \in Conns :
         ( /\ nmsgs' = nmsgs + 1
           /\ io'.conn = c
           /\ io'.in.kind = "simulate"
           /\ ~conn[c].handshake_complete )
         => /\ io'.out = NoResponse
            /\ ~io'.written
            /\ conn' = conn
            /\ UNCHANGED << agent, task, njobs, proc, chan, signals >>]_vars

C10_Witness ==
    /\ io.in.kind = "simulate"
    /\ io.in.ok
    /\ io.out = NoResponse
    /\ conn[io.conn].st = "open"
    /\ ~conn[io.conn].handshake_complete
    /\ njobs = 0

\* The connections whose handler has been started and has not returned.
Handlers == { c \in Conns : conn[c].st = "open" }

\* The step read a frame on connection c.
ReadOn(c) == nmsgs' = nmsgs + 1 /\ io'.conn = c

\* C11: ws_connections equals the number of accepted connections whose
\* handler has not finished, whichever way a handler ends.
C11_ConnectionCount == ws_connections = Cardinality(Handlers)

\* C12: a text frame with a malformed body (not JSON, or a recognized type
\* whose request does not decode) gets no response and leaves the connection
\* open, as it was.
C12_MalformedDropped ==
    [][\A c \in Conns :
         (ReadOn(c) /\ (io'.in.kind = "badjson" \/ ~io'.in.ok))
         => /\ io'.out = NoResponse
            /\ conn'[c] = conn[c]
            /\ conn'[c].st = "open"]_vars

\* C13: on a connection, the simulation_progress frame of a simulate request
\* is written before the simulation_result of that request: the task is
\* spawned by the step that writes the progress frame, with no result of
\* its own written or queued, and a result is only ever written for a task
\* spawned in an earlier step, on the connection that spawned it.
C13_ProgressFirst ==
    [][/\ \A t \in Jobs :
            (task[t].pc = "unborn" /\ task'[t].pc # "unborn")
            => /\ io'.written
               /\ io'.out = [type |-> "simulation_progress",
                             requestId |-> RequestId(t),
                             stage |-> "preparing"]
               /\ io'.conn = task'[t].conn
               /\ delivered'[t] = 0
               /\ \A i \in 1..Len(chan'[task'[t].conn]) :
                    chan'[task'[t].conn][i].requestId # RequestId(t)
       /\ (io'.written /\ io'.out.type = "simulation_result")
          => /\ task[io'.out.requestId].pc # "unborn"
             /\ task[io'.out.requestId].conn = io'.conn]_vars

C13_Witness ==
    /\ ResultWritten
    /\ io.out.error = "Another simulation is already running"
    /\ delivered[io.out.requestId] = 1
    /\ task[io.out.requestId].conn = io.conn

\* The connection of task t is gone.
Orphan(t) ==
    IF task[t].conn = 0 THEN FALSE ELSE conn[task[t].conn].st = "closed"

\* C14: the end of a connection's handler sends no signal and changes none of
\* is_simulating, current_simulation_id, cancel_requested,
\* current_process_id, nor any task or process (a signal in that step is the
\* SIGKILL of a cancel whose answer could not be written); a job whose
\* connection is gone still goes on to its reset once its run is over, and
\* its response is dropped: nothing is queued, nothing written.
C14_TeardownLeavesJob ==
    /\ [][\A c \in Conns :
            (conn[c].st = "open" /\ conn'[c].st = "closed")
            => /\ UNCHANGED JobState
               /\ task' = task
               /\ proc' = proc
               /\ (signals' = signals \/ conn[c].pc = "kill_kill")]_vars
    /\ [][\A t \in Jobs :
            (task[t].pc = "send" /\ task'[t].pc # "send" /\ Orphan(t))
            => /\ chan' = chan
               /\ io' = NoIO
               /\ delivered' = delivered]_vars
    /\ [](\A c \in Conns : conn[c].st = "closed" => chan[c] = << >>)
    /\ \A t \in Jobs : (Orphan(t) /\ RunOver(t)) ~> ~JobInProgress(t)

C14_Witness ==
    \E t \in Jobs :
        /\ Orphan(t)
        /\ task[t].pc = "done"
        /\ proc[t] = "exited"
        /\ delivered[t] = 0
        /\ ~is_simulating
        /\ current_simulation_id = NoId
        /\ signals = << >>

\* The handler of connection c is inside handle_cancel.
InCancel(c) ==
    conn[c].pc \in {"cancel_store", "cancel_load", "kill_term", "kill_kill"}

\* C15: whatever its jobs are doing, a connection at its select! that no
\* writer keeps from the read lock takes a ping and a cancel, and a
\* handle_cancel under way comes back to the select! (or the connection
\* ends) without any step of a job.
C15_LoopResponsive ==
    /\ [](\A c \in Conns :
            ( /\ conn[c].st = "open"
              /\ conn[c].pc = "select"
              /\ wlock = 0
              /\ nmsgs < MaxMsgs )
            => /\ ENABLED OnPing(c, Frame("ping", TRUE, "", 0))
               /\ \A j \in Jobs :
                    ENABLED OnCancel(c, Frame("cancel", TRUE, "", j)))
    /\ \A c \in Conns : InCancel(c) ~> ~InCancel(c)

C15_Witness ==
    \E t \in Jobs :
        /\ io.in.kind = "ping"
        /\ io.written
        /\ io.out = [type |-> "pong", status |-> "busy"]
        /\ task[t].conn = io.conn
        /\ task[t].pc = "wait"
        /\ proc[t] = "running"

\* A decoder has been applied and has returned.
Returned(fn) == arg.fn = fn /\ arg.calls = 1

\* C16: every result a decoder returns has each trace as long as its axis.
C16_TracesMatchAxis ==
    ( /\ Returned("parse_raw_file") \/ Returned("parse_ngspice_raw_file")
      /\ ret.ok = "Ok" )
    => \A i \in 1..Len(ret.traces) : Len(ret.traces[i].data) = Len(ret.time)

\* A Format-A artifact with its marker, whose Variables block lists the
\* variables its header declares, one at least.
HeaderA(a) == a.marker /\ a.num_vars >= 1 /\ a.variables = a.num_vars

\* The result is an axis of P values and N - 1 traces of P values each.
Decoded(P, N) ==
    /\ ret.ok = "Ok"
    /\ Len(ret.time) = P
    /\ Len(ret.traces) = N - 1
    /\ \A i \in 1..Len(ret.traces) : Len(ret.traces[i].data) = P

RoundTrip(a) ==
    IF a.binary >= a.num_points * bytes_per_point(a.num_vars, a.is_double)
    THEN Decoded(a.num_points, a.num_vars)
    ELSE ret.ok = "Err"

\* C17 as stated: parse_raw_file on a Format-A artifact declaring N listed
\* variables and P points returns an axis of P values and N - 1 traces of P
\* values when the binary region holds P records at least, and an error when
\* it is shorter.
C17_RoundTrip ==
    (Returned("parse_raw_file") /\ HeaderA(arg.artifact))
    => RoundTrip(arg.artifact)

\* C17 amended: the same, for a header that declares one point at least.
C17_RoundTripOfPoints ==
    ( /\ Returned("parse_raw_file")
      /\ HeaderA(arg.artifact)
      /\ arg.artifact.num_points >= 1 )
    => RoundTrip(arg.artifact)

C17_Witness ==
    /\ Returned("parse_raw_file")
    /\ HeaderA(arg.artifact)
    /\ arg.artifact.num_vars = MaxVars
    /\ arg.artifact.num_points = MaxPoints
    /\ ~arg.artifact.is_double
    /\ arg.artifact.binary = MaxPoints * (8 + (MaxVars - 1) * 4)
    /\ Decoded(MaxPoints, MaxVars)

\* A Format-B artifact whose Variables block lists the variables its header
\* declares, one at least, and whose data region is a run of points cut off
\* anywhere: in an ASCII region each point is a new-point line followed by
\* one continuation line per further variable.
PointStream(a) ==
    /\ a.num_vars >= 1
    /\ a.variables = a.num_vars
    /\ a.is_binary
       \/ \A i \in 1..Len(a.values) :
            a.values[i] = IF (i - 1) % a.num_vars = 0 THEN "new" ELSE "cont"

\* The complete points of such an artifact.
PointsHeld(a) ==
    IF a.is_binary
    THEN a.binary \div (a.num_vars * (IF a.is_complex THEN 16 ELSE 8))
    ELSE Len(a.values) \div a.num_vars

\* C18: parse_ngspice_raw_file on a Format-B artifact that holds k complete
\* points, 1 <= k < the declared point count, returns an axis of k values.
C18_DecodedLength ==
    ( /\ Returned("parse_ngspice_raw_file")
      /\ PointStream(arg.artifact)
      /\ 1 <= PointsHeld(arg.artifact)
      /\ PointsHeld(arg.artifact) < arg.artifact.num_points )
    => ret.ok = "Ok" /\ Len(ret.time) = PointsHeld(arg.artifact)

\* The step is a call of prepare_netlist on what the call before returned.
Reapplied ==
    arg.fn = "prepare_netlist" /\ arg.calls >= 1 /\ arg'.calls = arg.calls + 1

\* The lines of a text that hold one of the given pieces.
DirectiveLines(text, directive) ==
    { i \in 1..Len(Lines(text)) : Contains(Lines(text)[i], directive) }

\* The netlist has a .end line and neither a .backanno nor a .save.
Bare(netlist) ==
    /\ \E i \in 1..Len(Lines(netlist)) : IsEnd(Lines(netlist)[i])
    /\ ~Contains(netlist, BackannoText)
    /\ ~Contains(netlist, SaveText)

OneOfEach ==
    (arg.fn = "prepare_netlist" /\ arg.calls >= 1 /\ Bare(arg.netlist))
    => /\ Cardinality(DirectiveLines(ret.value, BackannoText)) = 1
       /\ Cardinality(DirectiveLines(ret.value, SaveText)) = 1

\* C19 as stated: prepare_netlist applied to its own output returns that
\* output unchanged, for every netlist and quality; and a netlist with a
\* .end line and no .backanno or .save has exactly one line of each after
\* any number of applications.
C19_Idempotent ==
    /\ [][Reapplied => ret'.value = ret.value]_vars
    /\ []OneOfEach

\* A line without the carriage returns at its end.
RECURSIVE StripCRs(_)
StripCRs(line) ==
    IF line # << >> /\ line[Len(line)] = CR
    THEN StripCRs(SubSeq(line, 1, Len(line) - 1))
    ELSE line

\* Lines without the empty ones at their end.
RECURSIVE DropEmptyLast(_)
DropEmptyLast(lines) ==
    IF lines # << >> /\ lines[Len(lines)] = << >>
    THEN DropEmptyLast(SubSeq(lines, 1, Len(lines) - 1))
    ELSE lines

\* The lines of a text, line terminators aside.
Content(text) ==
    DropEmptyLast([i \in 1..Len(Lines(text)) |-> StripCRs(Lines(text)[i])])

\* The netlist has no carriage return and does not end in an empty line.
Plain(netlist) ==
    /\ \A i \in 1..Len(netlist) : netlist[i] # CR
    /\ ~( /\ Len(netlist) >= 2
          /\ netlist[Len(netlist)] = LF
          /\ netlist[Len(netlist) - 1] = LF )

\* C19 amended: prepare_netlist applied to its own output changes line
\* terminators at most (the content of the lines, carriage returns at line
\* ends and empty last lines aside, is unchanged, so no directive is
\* added); it returns that output unchanged when the netlist has no
\* carriage return and does not end in an empty line; and the netlist with
\* a .end line and no .backanno or .save has exactly one line of each
\* after any number of applications.
C19_IdempotentContent ==
    /\ [][Reapplied
          => /\ Content(ret'.value) = Content(ret.value)
             /\ Plain(arg.netlist) => ret'.value = ret.value]_vars
    /\ []OneOfEach

C19_Witness ==
    /\ arg.fn = "prepare_netlist"
    /\ arg.calls >= 2
    /\ Bare(arg.netlist)
    /\ Plain(arg.netlist)
    /\ Cardinality(DirectiveLines(ret.value, BackannoText)) = 1
    /\ Cardinality(DirectiveLines(ret.value, SaveText)) = 1
    /\ ret.value # arg.netlist

\* C20: for a netlist without a .end line, the result holds every missing
\* directive (.backanno, .save, .options plotwinsize) and ends with a .end
\* line.
C20_EndAppended ==
    ( /\ arg.fn = "prepare_netlist"
      /\ arg.calls = 1
      /\ \A i \in 1..Len(Lines(arg.netlist)) : ~IsEnd(Lines(arg.netlist)[i]) )
    => /\ Contains(ret.value, BackannoText)
       /\ Contains(ret.value, SaveText)
       /\ Contains(ret.value, PlotwinsizeText)
       /\ Lines(ret.value) # << >>
       /\ IsEnd(Lines(ret.value)[Len(Lines(ret.value))])

\* The netlist a call of prepare_netlist is given.
Given == IF arg.calls = 0 THEN arg.netlist ELSE ret.value

\* The lines of a text that hold a plotwinsize option, in order.
Options(text) ==
    SelectSeq(Content(text), LAMBDA line : Contains(line, PlotwinsizeText))

\* C21: prepare_netlist on a netlist with a .end line and no
\* ".options plotwinsize" text returns a text with exactly one plotwinsize
\* line, ".options plotwinsize=128" for the hint "fast" and
\* ".options plotwinsize=0" for every other hint, placed right before the
\* first .end line; on a netlist that holds such an option, the plotwinsize
\* lines of the result are those of the netlist.
C21_PlotwinsizeByQuality ==
    [][(arg.fn = "prepare_netlist" /\ arg'.calls = arg.calls + 1)
       => /\ ( /\ \E i \in 1..Len(Lines(Given)) : IsEnd(Lines(Given)[i])
               /\ ~Contains(Given, PlotwinsizeText) )
             => /\ Options(ret'.value)
                     = << << IF arg.waveform_quality = "fast"
                             THEN ".options plotwinsize=128"
                             ELSE ".options plotwinsize=0" >> >>
                /\ \E i \in 2..Len(Lines(ret'.value)) :
                      /\ Contains(Lines(ret'.value)[i - 1], PlotwinsizeText)
                      /\ IsEnd(Lines(ret'.value)[i])
                      /\ \A j \in 1..(i - 1) : ~IsEnd(Lines(ret'.value)[j])
          /\ Contains(Given, PlotwinsizeText)
             => Options(ret'.value) = Options(Given)]_vars

C21_Witness ==
    /\ arg.fn = "prepare_netlist"
    /\ arg.calls = 1
    /\ arg.waveform_quality = "smooth"
    /\ \E i \in 1..Len(Lines(arg.netlist)) : IsEnd(Lines(arg.netlist)[i])
    /\ ~Contains(arg.netlist, PlotwinsizeText)
    /\ Contains(arg.netlist, SaveText)
    /\ Options(ret.value) = << << ".options plotwinsize=0" >> >>

\* Job t has been admitted and has not yet loaded the cancellation flag.
Cancellable(t) == task[t].pc \in {"admit_pid", "run", "store_pid", "wait"}

\* C26: a cancel naming job X sends signals only to the process launched for
\* X, and stores the cancellation flag only when no other job Y is the
\* admitted current job that will load it and be reported as cancelled.
C26_CancelNamedJobOnly ==
    [][/\ \A i \in 1..Len(signals') :
             signals'[i].pid = Pid(signals'[i].requestId)
       /\ \A c \in Conns :
            (conn[c].pc = "cancel_store" /\ conn'[c].pc = "cancel_load")
            => \A t \in Jobs :
                  ( /\ RequestId(t) # conn[c].creq
                    /\ current_simulation_id = RequestId(t) )
                  => ~Cancellable(t)]_vars

\* No job is between admission and completion, and no task is inside a
\* block that holds the write locks.
NoJob == ~is_simulating /\ current_simulation_id = NoId /\ wlock = 0

\* C27: whenever no job is between admission and completion, cancel_requested
\* is FALSE and current_process_id is 0.
C27_NothingOutlivesJob == NoJob => ~cancel_requested /\ current_process_id = 0

\* C28: whenever no task holds the write lock of is_simulating, is_simulating
\* is TRUE exactly when current_simulation_id holds a job id.
C28_FlagMatchesId == wlock = 0 => (is_simulating <=> current_simulation_id # NoId)

C28_Witness ==
    /\ wlock = 0
    /\ ~is_simulating
    /\ current_simulation_id = NoId
    /\ \E t \in Jobs :
          /\ task[t].pc = "send"
          /\ task[t].result # "none"
          /\ task[t].was_cancelled

\* A signal of handle_cancel on connection c for the pid it loaded.
Signal(c, sig) == [pid |-> conn[c].cpid, sig |-> sig, requestId |-> conn[c].creq]

\* The step is one of the handler of connection c: it reads a frame, or it
\* goes on with the cancel it is handling.
HandlerStep(c) == ReadOn(c) \/ (InCancel(c) /\ conn'[c] # conn[c])

\* No task is spawned by a connection that has not completed a handshake.
SpawnedAfterHandshake ==
    \A t \in Jobs :
        (task[t].pc = "unborn" /\ task'[t].pc # "unborn")
        => conn[task'[t].conn].handshake_complete

\* C29: a step of the handler of a connection that has not
\* completed a handshake leaves is_simulating, current_simulation_id,
\* cancel_requested and current_process_id as they are, sends no signal and
\* spawns no job.
C29_NoHandshakeNoEffect ==
    [][/\ SpawnedAfterHandshake
       /\ \A c \in Conns :
            (HandlerStep(c) /\ ~conn[c].handshake_complete)
            => JobState' = JobState /\ signals' = signals]_vars

\* C30: the process of a job for which a cancel has been answered
\* success:true does not exit without a termination signal sent to it.
C30_AcceptedCancelSignals ==
    [][\A t \in Jobs :
         ( /\ RequestId(t) \in acked
           /\ proc[t] = "running"
           /\ proc'[t] = "exited" )
         => \E i \in 1..Len(signals) : signals[i].pid = Pid(t)]_vars

\* A line that is neither a note, nor a warning, nor a "0 error" summary, and
\* holds the error marker.
ErrorLine(line) ==
    /\ ~HasNote(line.text)
    /\ ~HasWarning(line.text)
    /\ ~HasZeroError(line.text)
    /\ HasError(line.text)

\* C22: extract_ngspice_error returns Some exactly when a line of the output
\* that is not a note, a warning or a "0 error" summary holds an error
\* marker; otherwise it returns None.
C22_FailureIffErrorLine ==
    Returned("extract_ngspice_error")
    => ( ret.ok = "Some"
         <=> \E i \in 1..Len(arg.output) : ErrorLine(arg.output[i]) )

\* The result is an error, returned without reading the artifact.
Failed == ret.ok = "Err" /\ ~ret.read

\* The result is what decoding the artifact gave, and decoding succeeded.
DecodedArtifact ==
    /\ arg.output.status_success
    /\ arg.raw.fmt # NoFile
    /\ parse_raw_file(arg.raw).ok = "Ok"
    /\ ret.time = parse_raw_file(arg.raw).time
    /\ ret.traces = parse_raw_file(arg.raw).traces

\* C23 as stated: a non-zero exit status yields an error that carries stderr
\* and the contents of the log file, the artifact not being read; a zero exit
\* status without circuit.raw yields an error; results are returned only for
\* a zero exit status with an artifact that decodes.
C23_ExitClassified ==
    Returned("run_ltspice_simulation")
    => /\ ~arg.output.status_success
          => /\ Failed
             /\ Len(ret.error) = 4
             /\ arg.output.stderr \notin NotUtf8 => ret.error[2] = arg.output.stderr
             /\ arg.log # NoFile => ret.error[4] = arg.log
       /\ (arg.output.status_success /\ arg.raw.fmt = NoFile) => Failed
       /\ ret.ok = "Ok" => DecodedArtifact

\* C23 amended: the same, the error carrying the contents of the log file
\* when that file is UTF-8 text, and nothing of it otherwise.
C23_ExitClassifiedText ==
    Returned("run_ltspice_simulation")
    => /\ ~arg.output.status_success
          => /\ Failed
             /\ Len(ret.error) = 4
             /\ arg.output.stderr \notin NotUtf8 => ret.error[2] = arg.output.stderr
             /\ ret.error[4] = IF arg.log = NoFile \/ arg.log \in NotUtf8
                               THEN "" ELSE arg.log
       /\ (arg.output.status_success /\ arg.raw.fmt = NoFile) => Failed
       /\ ret.ok = "Ok" => DecodedArtifact

C23_Witness ==
    /\ Returned("run_ltspice_simulation")
    /\ ~arg.output.status_success
    /\ arg.output.stderr = "Fatal error"
    /\ arg.log = "Fatal error"
    /\ arg.raw.fmt # NoFile
    /\ parse_raw_file(arg.raw).ok = "Ok"
    /\ ret.ok = "Err"
    /\ ret.error[2] = "Fatal error"
    /\ ret.error[4] = "Fatal error"

C25_NoNotesInError ==
    (Returned("extract_ngspice_error") /\ ret.ok = "Some")
    => \A k \in 1..Len(ret.value) :
          ~HasNote(ret.value[k]) /\ ~HasWarning(ret.value[k])

====
